---- MODULE Spec2Model ----
(***************************************************************************)
(* Aquarium monitor: the collector loop (collector.py), the dashboard      *)
(* service (app.py): device read, scaling/encoding, the VictoriaMetrics    *)
(* query planner, the dynamic range inference, the history and bulk export *)
(* requests and the diary, and the set-up wizard's connection test         *)
(* (setup-tuya.py).                                                        *)
(*                                                                         *)
(* Numbers that are floats in the program are exact rationals here, a      *)
(* record [n |-> numerator, d |-> denominator] with d > 0.                 *)
(***************************************************************************)
EXTENDS Integers, Sequences, FiniteSets, TLC

VARIABLES
    \* ---- collector.py: main / collect_once -------------------------------
    pc,         \* position of main's loop: "Polling" (about to call
                \* collect_once) or "Idle" (in time.sleep)
    dur,        \* seconds the last collect_once took
    gap,        \* seconds between the starts of the last two cycles (0: none yet)
    result,     \* what d.status() answered in the last cycle
    sensor,     \* what get_sensor_reading returned in the last cycle
    payload,    \* the lines POSTed in the last cycle (<<>> when no POST)
    reads,      \* d.status() calls made in the last cycle
    posts,      \* requests.post calls made in the last cycle
    wrote,      \* return value of write_to_victoria in the last cycle
    raised,     \* an exception escaped collect_once in the last cycle
    \* ---- app.py: device reader -------------------------------------------
    device,     \* the answer the device gives to status()
    current,    \* the last response of /api/current
    \* ---- app.py: query_victoria ------------------------------------------
    qPhase,     \* "ready", or "returned" while the caller holds the result
    qMetric,    \* the metric argument of the last query_victoria call
    qHours,     \* its hours argument
    qReply,     \* what the store answered to it
    qStep,      \* the step parameter sent to the store
    qOut,       \* what the call returned (or that it raised)
    \* ---- app.py: api_ranges ----------------------------------------------
    TANK_PRESETS, \* the loaded preset catalog
    rPhase,     \* "ready", or "responded" while the response is on its way
    rTank,      \* the type argument of the last /api/ranges request
    rStore,     \* the store's answer per metric during that request
    rOut,       \* the response of that request
    rFirst,     \* an earlier /api/ranges response a client has kept
    rCount,     \* the requests that client has made so far
    \* ---- app.py: api_history --------------------------------------------
    hPhase,     \* "ready", or "responded" while the response is on its way
    hStore,     \* what the store holds per metric during the last request
    hOut,       \* the response of that request
    \* ---- app.py: export_excel -------------------------------------------
    xPhase,     \* "ready", or "responded" while the response is on its way
    xStore,     \* the store during the last /export/excel request
    xTable,     \* what get_all_readings_from_vm returned to it
    xOut,       \* the response of that request
    \* ---- setup-tuya.py: test_connection ---------------------------------
    wPhase,     \* "ready", or "returned" while the wizard holds the result
    wDevice,    \* what the device answers to status() per protocol version
    wCalls,     \* the versions status() was called with, in call order
    wOut,       \* what test_connection returned: (version, result)
    \* ---- app.py: the diary ----------------------------------------------
    diary,      \* the entries in DIARY_FILE (<<>> while there is no file)
    clock,      \* datetime.now() in milliseconds
    adds,       \* POST /api/diary requests started so far
    tPc,        \* per request thread: "idle", "adding" or "deleting" (the
                \* handler is between its load_diary and its save_diary)
    tLocal,     \* per request thread: the handler's entry (or entry_id) and
                \* the list load_diary returned to it
    acked,      \* the entries whose POST returned success
    delRun      \* the ids a DELETE request was made for

collectorVars == <<pc, dur, gap, result, sensor, payload, reads, posts, wrote, raised>>
readerVars    == <<device, current>>
queryVars     == <<qPhase, qMetric, qHours, qReply, qStep, qOut>>
rangesVars    == <<TANK_PRESETS, rPhase, rTank, rStore, rOut, rFirst, rCount>>
historyVars   == <<hPhase, hStore, hOut>>
exportVars    == <<xPhase, xStore, xTable, xOut>>
\* the later handlers' state, and the state of the ones above
wizardVars    == <<wPhase, wDevice, wCalls, wOut>>
diaryVars     == <<diary, clock, adds, tPc, tLocal, acked, delRun>>
serviceVars   == <<historyVars, exportVars, wizardVars, diaryVars>>
coreVars      == <<collectorVars, readerVars, queryVars, rangesVars>>
vars == <<coreVars, serviceVars>>

----------------------------------------------------------------------------
(* Bounds of the model *)

\* a device answer carries at most MaxChans data-points
MaxChans == 2
\* raw data-point values are 0..MaxRaw
MaxRaw == 2
\* a poll cycle (device read + store write) takes 0..MaxLatency seconds, or
\* overruns the interval by 1..MaxLatency seconds
MaxLatency == 2
\* a series returned by the store holds at most MaxSamples samples
MaxSamples == 2
\* query_victoria is called with hours in 1..MaxHours, or with one of the
\* hours around the later step boundaries
MaxHours == 8
\* a client comparing /api/ranges responses makes at most MaxRequests requests
MaxRequests == 3
\* the store's samples lie on the grid points 1..MaxGrid
MaxGrid == 2
\* at most MaxOdd metrics hold something else than the full grid
MaxOdd == 2
\* the clock runs over the milliseconds 1..MaxClock
MaxClock == 2
\* at most MaxAdds diary entries are posted
MaxAdds == 2

----------------------------------------------------------------------------
(* Rationals *)

Rat(n, d) == [n |-> n, d |-> d]
RatInt(i) == Rat(i, 1)
RatLeq(a, b) == a.n * b.d <= b.n * a.d
RatEq(a, b) == a.n * b.d = b.n * a.d
RatMul(a, b) == Rat(a.n * b.n, a.d * b.d)
RatAdd(a, b) ==
    IF a.d = b.d THEN Rat(a.n + b.n, a.d) ELSE Rat(a.n * b.d + b.n * a.d, a.d * b.d)
RatSub(a, b) ==
    IF a.d = b.d THEN Rat(a.n - b.n, a.d) ELSE Rat(a.n * b.d - b.n * a.d, a.d * b.d)
RatMax(a, b) == IF RatLeq(b, a) THEN a ELSE b
RatMin(a, b) == IF RatLeq(a, b) THEN a ELSE b

----------------------------------------------------------------------------
(* The device: tinytuya's status() *)

\* the channel ids of the catalog, in the catalog's order, and one the
\* catalog does not know
DPS_ORDER == <<"8", "106", "111", "116", "121", "126", "131">>
CatalogIds == {DPS_ORDER[i] : i \in 1..Len(DPS_ORDER)}
UnknownIds == {"999"}
Channels == CatalogIds \cup UnknownIds

\* a data-point value: an integer, as the device reports for its channels, or
\* a text (tinytuya passes on whatever type the device sends)
Raw(i) == [num |-> TRUE, v |-> i]
TextRaw == [num |-> FALSE, v |-> 0]

RawValues == {Raw(i) : i \in 0..MaxRaw}

NoDps == [c \in {} |-> 0]

DpsMaps ==
    UNION {[S -> RawValues] : S \in {X \in SUBSET Channels : Cardinality(X) <= MaxChans}}

ErrorStrings == {"", "Network Error: Device Unreachable"}

\* status() raises (error: the exception's message), or returns a dict that may hold "Error" and may hold "dps"
DeviceAnswers ==
       {[raises |-> TRUE, hasError |-> FALSE, error |-> e, hasDps |-> FALSE, dps |-> NoDps] :
            e \in ErrorStrings}
  \cup {[raises |-> FALSE, hasError |-> TRUE, error |-> e, hasDps |-> h, dps |-> m] :
            e \in ErrorStrings, h \in BOOLEAN,
            m \in {x \in DpsMaps : Cardinality(DOMAIN x) <= 1}}
  \cup {[raises |-> FALSE, hasError |-> FALSE, error |-> "", hasDps |-> FALSE, dps |-> NoDps]}
  \cup {[raises |-> FALSE, hasError |-> FALSE, error |-> "", hasDps |-> TRUE, dps |-> m] :
            m \in DpsMaps}

\* answers whose one data-point is a text
TextAnswers ==
    {[raises |-> FALSE, hasError |-> FALSE, error |-> "", hasDps |-> TRUE,
      dps |-> [c \in {id} |-> TextRaw]] : id \in Channels}

NoAnswer == [raises |-> TRUE, hasError |-> FALSE, error |-> "", hasDps |-> FALSE, dps |-> NoDps]

----------------------------------------------------------------------------
(* collector.py *)

INTERVAL == 300

\* DPS_MAP: dp_id -> (metric_name, scale_factor)
DPS_MAP ==
    [id \in CatalogIds |->
        CASE id = "8"   -> [metric |-> "aquarium_temperature_celsius", scale |-> Rat(1, 10)]
          [] id = "106" -> [metric |-> "aquarium_ph", scale |-> Rat(1, 100)]
          [] id = "111" -> [metric |-> "aquarium_tds_ppm", scale |-> Rat(1, 1)]
          [] id = "116" -> [metric |-> "aquarium_ec_uscm", scale |-> Rat(1, 1)]
          [] id = "121" -> [metric |-> "aquarium_salinity_ppm", scale |-> Rat(1, 1)]
          [] id = "126" -> [metric |-> "aquarium_specific_gravity", scale |-> Rat(1, 1000)]
          [] id = "131" -> [metric |-> "aquarium_orp_mv", scale |-> Rat(1, 1)]]

\* get_sensor_reading: None on an exception or an "Error" key, else
\* result.get("dps", {}); one status() call either way
CollectorRead(res) ==
    IF res.raises \/ res.hasError
    THEN [none |-> TRUE, dps |-> NoDps, calls |-> 1]
    ELSE [none |-> FALSE, dps |-> IF res.hasDps THEN res.dps ELSE NoDps, calls |-> 1]

\* the channel ids whose line write_to_victoria appends, in DPS_MAP's order
MatchedIds(dps) == SelectSeq(DPS_ORDER, LAMBDA id : id \in DOMAIN dps)

\* dps[dp_id] * scale: a text times the int 1 is the text, a text times a
\* float raises TypeError
Times(raw, scale) ==
    IF raw.num THEN [exc |-> FALSE, numeric |-> TRUE, value |-> RatMul(RatInt(raw.v), scale)]
    ELSE IF scale.d = 1 THEN [exc |-> FALSE, numeric |-> FALSE, value |-> RatInt(0)]
    ELSE [exc |-> TRUE, numeric |-> FALSE, value |-> RatInt(0)]

\* (mutant) the raw value is written without its scale factor
LineUnscaled(id, raw) ==
    [metric |-> DPS_MAP[id].metric, sensor |-> "seafront_8in1",
     numeric |-> raw.num, value |-> RatInt(raw.v)]

\* one exposition line: metric_name{sensor="seafront_8in1"} value
\* (the wall-clock timestamp_ms of the line is not modelled)
Line(id, raw) ==
    [metric |-> DPS_MAP[id].metric, sensor |-> "seafront_8in1",
     numeric |-> Times(raw, DPS_MAP[id].scale).numeric,
     value |-> Times(raw, DPS_MAP[id].scale).value]

\* the multiplication of write_to_victoria's loop raises
EncodeRaises(dps) ==
    \E id \in CatalogIds \cap DOMAIN dps : Times(dps[id], DPS_MAP[id].scale).exc

\* the f"{dps[dp_id] * scale:.2f}" of collect_once's loop raises
LogRaises(dps) == \E id \in CatalogIds \cap DOMAIN dps : ~dps[id].num

\* the lines list built by write_to_victoria's loop
EncodeLines(dps) ==
    [i \in 1..Len(MatchedIds(dps)) |-> Line(MatchedIds(dps)[i], dps[MatchedIds(dps)[i]])]

\* the responses of the store to the POST
WriteReplies ==
    {[raises |-> TRUE, status |-> 0]} \cup
    {[raises |-> FALSE, status |-> s] : s \in {204, 200, 500}}

\* the body of the POST: "\n".join(lines)
Payload(lines) == lines

\* (mutant) no `if not lines` guard: the POST is made with an empty body
WriteToVictoriaAlways(dps, wr) ==
    [posts |-> 1, payload |-> Payload(EncodeLines(dps)),
     ok |-> (~wr.raises /\ wr.status = 204), exc |-> FALSE]

\* write_to_victoria(dps) against a store that answers wr; exc: it raised
WriteToVictoria(dps, wr) ==
    LET lines == EncodeLines(dps) IN
    IF EncodeRaises(dps)
    THEN [posts |-> 0, payload |-> <<>>, ok |-> FALSE, exc |-> TRUE]
    ELSE IF lines = <<>>
    THEN [posts |-> 0, payload |-> <<>>, ok |-> FALSE, exc |-> FALSE]
    ELSE [posts |-> 1, payload |-> Payload(lines),
          ok |-> (~wr.raises /\ wr.status = 204), exc |-> FALSE]

\* `if dps:` in collect_once: not None and not the empty dict
Truthy(s) == ~s.none /\ DOMAIN s.dps # {}

Latencies == (0..MaxLatency) \cup {INTERVAL + k : k \in 1..MaxLatency}

\* (mutant) sleep only what is left of the interval since the cycle's start
SleepTimeFromStart(elapsed) == IF elapsed <= INTERVAL THEN INTERVAL - elapsed ELSE 0

\* the argument of time.sleep in main
SleepTime(elapsed) == INTERVAL

\* (mutant) no try/except in the loop: an exception ends the process
AfterCycleNoExcept(ok, exc) == IF exc THEN "Crashed" ELSE "Idle"

\* main's loop after collect_once returned (ok: the store took the write) or
\* raised (exc): the except clause swallows the exception and the loop goes
\* on to time.sleep either way
AfterCycle(ok, exc) == "Idle"

NoSensor == [none |-> TRUE, dps |-> NoDps, calls |-> 0]

\* one pass of main's try block: collect_once(), lasting lat seconds
CollectOnce(res, wr, lat) ==
    /\ pc = "Polling"
    /\ result' = res
    /\ dur' = lat
    /\ LET s == CollectorRead(res)
           w == IF Truthy(s) THEN WriteToVictoria(s.dps, wr)
                ELSE [posts |-> 0, payload |-> <<>>, ok |-> FALSE, exc |-> FALSE]
       IN /\ sensor' = s
          /\ reads' = s.calls
          /\ posts' = w.posts
          /\ payload' = w.payload
          /\ wrote' = w.ok
          /\ raised' = (Truthy(s) /\ (w.exc \/ LogRaises(s.dps)))
    /\ pc' = AfterCycle(wrote', raised')
    /\ UNCHANGED gap

Poll ==
    /\ pc = "Polling"
    /\ \E res \in DeviceAnswers, lat \in Latencies, wr \in WriteReplies :
          CollectOnce(res, wr, lat)
    /\ UNCHANGED <<readerVars, queryVars, rangesVars>>
    /\ UNCHANGED serviceVars

\* time.sleep(INTERVAL), then the loop starts the next cycle; the locals of
\* the finished collect_once (result, dps, lines) are gone by then
Sleep ==
    /\ pc = "Idle"
    /\ gap' = dur + SleepTime(dur)
    /\ pc' = "Polling"
    /\ result' = NoAnswer
    /\ sensor' = NoSensor
    /\ payload' = <<>>
    /\ UNCHANGED <<dur, reads, posts, wrote, raised>>
    /\ UNCHANGED <<readerVars, queryVars, rangesVars>>
    /\ UNCHANGED serviceVars

InitCollector ==
    /\ pc = "Polling"
    /\ dur = 0
    /\ gap = 0
    /\ result = NoAnswer
    /\ sensor = NoSensor
    /\ payload = <<>>
    /\ reads = 0
    /\ posts = 0
    /\ wrote = FALSE
    /\ raised = FALSE

----------------------------------------------------------------------------
(* app.py: the dashboard's device reader *)

\* DPS_MAP of app.py: dp_id -> (col, name, unit, scale)
APP_DPS_MAP ==
    [id \in CatalogIds |->
        CASE id = "8"   -> [col |-> "temperature", scale |-> Rat(1, 10)]
          [] id = "106" -> [col |-> "ph", scale |-> Rat(1, 100)]
          [] id = "111" -> [col |-> "tds", scale |-> Rat(1, 1)]
          [] id = "116" -> [col |-> "ec", scale |-> Rat(1, 1)]
          [] id = "121" -> [col |-> "salinity", scale |-> Rat(1, 1)]
          [] id = "126" -> [col |-> "sg", scale |-> Rat(1, 1000)]
          [] id = "131" -> [col |-> "orp", scale |-> Rat(1, 1)]]

\* the dp_id of a column name
IdOfCol(col) == CHOOSE id \in CatalogIds : APP_DPS_MAP[id].col = col

\* the keys of the reading dict built by get_sensor_reading's loop
ReadingCols(dps) == {APP_DPS_MAP[id].col : id \in CatalogIds \cap DOMAIN dps}

\* get_sensor_reading of app.py: (reading, error)
AppRead(res) ==
    LET dps == IF res.hasDps THEN res.dps ELSE NoDps IN
    IF res.raises \/ res.hasError
    THEN [none |-> TRUE, reading |-> NoDps, hasError |-> TRUE, error |-> res.error]
    ELSE IF \E id \in CatalogIds \cap DOMAIN dps : Times(dps[id], APP_DPS_MAP[id].scale).exc
    THEN [none |-> TRUE, reading |-> NoDps, hasError |-> TRUE,
          error |-> "can't multiply sequence by non-int of type 'float'"]
    ELSE [none |-> FALSE,
          reading |-> [c \in ReadingCols(dps) |->
                          [numeric |-> Times(dps[IdOfCol(c)], APP_DPS_MAP[IdOfCol(c)].scale).numeric,
                           value |-> Times(dps[IdOfCol(c)], APP_DPS_MAP[IdOfCol(c)].scale).value]],
          hasError |-> FALSE, error |-> ""]

NoCurrent == [status |-> 0, hasError |-> FALSE, error |-> "", null |-> TRUE, reading |-> NoDps]

\* /api/current: `if error:` answers 500 with the error, else the reading
\* (null when the reading is None)
ApiCurrent(res) ==
    /\ LET r == AppRead(res) IN
       current' =
         IF r.hasError /\ r.error # ""
         THEN [status |-> 500, hasError |-> TRUE, error |-> r.error, null |-> TRUE,
               reading |-> NoDps]
         ELSE [status |-> 200, hasError |-> FALSE, error |-> "", null |-> r.none,
               reading |-> r.reading]
    /\ UNCHANGED <<device, collectorVars, queryVars, rangesVars>>
    /\ UNCHANGED serviceVars

----------------------------------------------------------------------------
(* app.py: query_victoria *)

\* VM_METRICS: column -> metric name
VM_METRICS ==
    [col \in {"temperature", "ph", "tds", "ec", "salinity", "sg", "orp"} |->
        CASE col = "temperature" -> "aquarium_temperature_celsius"
          [] col = "ph" -> "aquarium_ph"
          [] col = "tds" -> "aquarium_tds_ppm"
          [] col = "ec" -> "aquarium_ec_uscm"
          [] col = "salinity" -> "aquarium_salinity_ppm"
          [] col = "sg" -> "aquarium_specific_gravity"
          [] col = "orp" -> "aquarium_orp_mv"]

\* the sample values the store holds, in hundredths: -2.00, 0, 0.40, 7.15, 9.50
SampleValues == {-200, 0, 40, 715, 950}

\* the value text of a sample: a number, or text float() does not take
SampleTexts ==
    {[numeric |-> TRUE, hundredths |-> v] : v \in SampleValues}
    \cup {[numeric |-> FALSE, hundredths |-> 0]}

\* the "values" of one result series: [ts, text] pairs on the step's grid
SeriesOf(texts) == [i \in 1..Len(texts) |-> [ts |-> i, text |-> texts[i]]]
AllSeries == {SeriesOf(x) : x \in UNION {[1..n -> SampleTexts] : n \in 0..MaxSamples}}
GoodSeries == {x \in AllSeries : \A i \in 1..Len(x) : x[i].text.numeric}

NoReply ==
    [net |-> FALSE, json |-> FALSE, hasStatus |-> FALSE, status |-> "",
     hasData |-> FALSE, result |-> <<>>]

\* a second result series, which the code never looks at
OtherSeries == SeriesOf(<<[numeric |-> TRUE, hundredths |-> 0]>>)

\* what the store does with a query_range request: the network fails (or
\* times out), or the body is not JSON, or it is a JSON object that may lack
\* "status" or "data"
QueryReplies ==
       {NoReply}
  \cup {[NoReply EXCEPT !.net = TRUE]}
  \cup {[net |-> TRUE, json |-> TRUE, hasStatus |-> FALSE, status |-> "",
         hasData |-> d, result |-> <<>>] : d \in BOOLEAN}
  \cup {[net |-> TRUE, json |-> TRUE, hasStatus |-> TRUE, status |-> st,
         hasData |-> FALSE, result |-> <<>>] : st \in {"success", "error"}}
  \cup {[net |-> TRUE, json |-> TRUE, hasStatus |-> TRUE, status |-> st,
         hasData |-> TRUE, result |-> r] :
            st \in {"success", "error"},
            r \in {<<>>} \cup {<<x>> : x \in AllSeries} \cup {<<x, OtherSeries>> : x \in AllSeries}}

\* (mutant) strict comparisons: 6, 24 and 168 hours fall into the next step
StepStrict(hours) ==
    IF hours < 6 THEN "1m"
    ELSE IF hours < 24 THEN "5m"
    ELSE IF hours < 168 THEN "15m"
    ELSE "1h"

\* the step chosen for a look-back of `hours`
Step(hours) ==
    IF hours <= 6 THEN "1m"
    ELSE IF hours <= 24 THEN "5m"
    ELSE IF hours <= 168 THEN "15m"
    ELSE "1h"

EmptySeries == [timestamps |-> <<>>, values |-> <<>>]

\* datetime.fromtimestamp(ts).strftime("%Y-%m-%d %H:%M:%S")
FormatTs(ts) == [format |-> "%Y-%m-%d %H:%M:%S", epoch |-> ts]

\* float(text) of a numeric text
ToFloat(text) == Rat(text.hundredths, 100)

\* the try block of query_victoria: exc when a statement of it raises
\* (requests.get, resp.json(), data["status"], data["data"], float(v[1]))
QueryBody(reply) ==
    IF ~reply.net \/ ~reply.json \/ ~reply.hasStatus
    THEN [exc |-> TRUE, out |-> EmptySeries]
    ELSE IF reply.status # "success"
    THEN [exc |-> FALSE, out |-> EmptySeries]
    ELSE IF ~reply.hasData
    THEN [exc |-> TRUE, out |-> EmptySeries]
    ELSE IF reply.result = <<>>
    THEN [exc |-> FALSE, out |-> EmptySeries]
    ELSE LET values == reply.result[1] IN
         IF \E i \in 1..Len(values) : ~values[i].text.numeric
         THEN [exc |-> TRUE, out |-> EmptySeries]
         ELSE [exc |-> FALSE,
               out |-> [timestamps |-> [i \in 1..Len(values) |-> FormatTs(values[i].ts)],
                        values |-> [i \in 1..Len(values) |-> ToFloat(values[i].text)]]]

\* (mutant) the except clause is missing: what the try block raises goes to the caller
QueryVictoriaNoExcept(metric, hours, reply) ==
    [raised |-> QueryBody(reply).exc, query |-> metric, step |-> Step(hours),
     out |-> QueryBody(reply).out]

\* query_victoria(metric, hours) against a store that answers `reply`
QueryVictoria(metric, hours, reply) ==
    [raised |-> FALSE, query |-> metric, step |-> Step(hours),
     out |-> IF QueryBody(reply).exc THEN EmptySeries ELSE QueryBody(reply).out]

HoursAsked == (1..MaxHours) \cup {23, 24, 25, 100, 167, 168, 169, 720}

NoQueryOut == [raised |-> FALSE, out |-> EmptySeries]

\* a call of query_victoria, up to its return
CallQuery ==
    /\ qPhase = "ready"
    /\ \E col \in DOMAIN VM_METRICS, hours \in HoursAsked, reply \in QueryReplies :
          LET q == QueryVictoria(VM_METRICS[col], hours, reply) IN
          /\ qMetric' = q.query
          /\ qHours' = hours
          /\ qReply' = reply
          /\ qStep' = q.step
          /\ qOut' = [raised |-> q.raised, out |-> q.out]
    /\ qPhase' = "returned"
    /\ UNCHANGED <<collectorVars, readerVars, rangesVars>>
    /\ UNCHANGED serviceVars

\* the caller has used the result; the call's locals are gone
QueryDone ==
    /\ qPhase = "returned"
    /\ qPhase' = "ready"
    /\ qMetric' = "" /\ qHours' = 0 /\ qReply' = NoReply /\ qStep' = ""
    /\ qOut' = NoQueryOut
    /\ UNCHANGED <<collectorVars, readerVars, rangesVars>>
    /\ UNCHANGED serviceVars

----------------------------------------------------------------------------
(* app.py: api_ranges *)

Cols == DOMAIN VM_METRICS
\* the parameters api_ranges computes a band for, in the order it queries them
DynOrder == <<"ph", "ec", "tds", "salinity", "orp">>
DynCols == {DynOrder[i] : i \in 1..Len(DynOrder)}

UnitOf(col) ==
    CASE col = "temperature" -> "C"
      [] col = "ph" -> ""
      [] col = "tds" -> "ppm"
      [] col = "ec" -> "uS/cm"
      [] col = "salinity" -> "ppm"
      [] col = "sg" -> ""
      [] col = "orp" -> "mV"

\* a band of tank_presets.json
StaticBand(lo, col) ==
    [min |-> RatInt(lo), max |-> RatInt(lo + 3), ideal_min |-> RatInt(lo + 1),
     ideal_max |-> RatInt(lo + 2), unit |-> UnitOf(col)]

\* the catalogs tank_presets.json may hold: no file, or two tank types, the
\* second without a band for "orp"
PresetCatalogs ==
    { [x \in {} |-> 0],
      [ty \in {"freshwater_tropical", "marine"} |->
          IF ty = "freshwater_tropical"
          THEN [name |-> "Freshwater Tropical",
                ranges |-> [c \in Cols |-> StaticBand(1, c)]]
          ELSE [name |-> "Marine",
                ranges |-> [c \in Cols \ {"orp"} |-> StaticBand(5, c)]]] }

TankTypesAsked == {"freshwater_tropical", "marine", "pond"}

\* the store during one request: for each of the five metrics it answers
\* with the series it holds, with an empty result, or not at all
StoreKinds == {"data", "empty", "fail"}
ReplyOfKind(kind, series) ==
    CASE kind = "data" ->
            [net |-> TRUE, json |-> TRUE, hasStatus |-> TRUE, status |-> "success",
             hasData |-> TRUE, result |-> <<series>>]
      [] kind = "empty" ->
            [net |-> TRUE, json |-> TRUE, hasStatus |-> TRUE, status |-> "success",
             hasData |-> TRUE, result |-> <<>>]
      [] kind = "fail" -> NoReply
RangeStores ==
    {[c \in DynCols |-> ReplyOfKind(k[c], x)] : k \in [DynCols -> StoreKinds], x \in AllSeries}

RECURSIVE SumSeq(_)
\* sum(values)
SumSeq(values) ==
    IF values = <<>> THEN RatInt(0)
    ELSE IF Len(values) = 1 THEN values[1]
    ELSE RatAdd(values[1], SumSeq(Tail(values)))

\* sum(values) / len(values)
Mean(values) == Rat(SumSeq(values).n, SumSeq(values).d * Len(values))

\* round(x, digits), ties to the even neighbour
Round(x, digits) ==
    LET m == IF digits = 2 THEN 100 ELSE 1
        num == x.n * m
        fl == num \div x.d
        twice == 2 * (num - fl * x.d)
        r == IF twice < x.d THEN fl
             ELSE IF twice > x.d THEN fl + 1
             ELSE IF fl % 2 = 0 THEN fl ELSE fl + 1
    IN Rat(r, m)

\* the pH band of a 7-day mean
PhBand(mean) ==
    [min |-> Rat(65, 10), max |-> Rat(85, 10),
     ideal_min |-> RatMax(Rat(65, 10), RatSub(mean, Rat(5, 10))),
     ideal_max |-> RatMin(Rat(85, 10), RatAdd(mean, Rat(5, 10))),
     unit |-> "", dynamic |-> TRUE, mean |-> Round(mean, 2)]

\* the EC, TDS and salinity band of a 7-day mean
PercentBand(mean, unit) ==
    [min |-> RatMax(RatInt(0), RatMul(mean, Rat(5, 10))),
     max |-> RatMul(mean, Rat(15, 10)),
     ideal_min |-> RatMul(mean, Rat(8, 10)),
     ideal_max |-> RatMul(mean, Rat(12, 10)),
     unit |-> unit, dynamic |-> TRUE, mean |-> Round(mean, 0)]

\* the ORP band of a 7-day mean
OrpBand(mean) ==
    [min |-> RatMax(RatInt(0), RatMul(mean, Rat(7, 10))),
     max |-> RatMul(mean, Rat(13, 10)),
     ideal_min |-> RatMul(mean, Rat(85, 100)),
     ideal_max |-> RatMul(mean, Rat(115, 100)),
     unit |-> "mV", dynamic |-> TRUE, mean |-> Round(mean, 0)]

DynamicBand(col, mean) ==
    CASE col = "ph" -> PhBand(mean)
      [] col = "orp" -> OrpBand(mean)
      [] OTHER -> PercentBand(mean, UnitOf(col))

\* (mutant) every block queries the pH metric
SevenDayValuesOfPh(col, store) == QueryVictoria(VM_METRICS["ph"], 168, store["ph"]).out.values

\* the values of query_victoria(VM_METRICS[col], 168) that are not None
SevenDayValues(col, store) == QueryVictoria(VM_METRICS[col], 168, store[col]).out.values

\* the columns whose band one block of api_ranges replaces
Replaced(store) == {c \in DynCols : SevenDayValues(c, store) # <<>>}

\* ranges = dict(preset["ranges"]), then the five blocks
ComputeRanges(preset, store) ==
    [c \in DOMAIN preset.ranges \cup Replaced(store) |->
        IF c \in Replaced(store)
        THEN DynamicBand(c, Mean(SevenDayValues(c, store)))
        ELSE preset.ranges[c]]

NoStore == [c \in {} |-> 0]
NoRanges == [status |-> 0, tank_type |-> "", name |-> "", ranges |-> NoStore]

NoFirst == [kept |-> FALSE, tank |-> "", store |-> NoStore, out |-> NoRanges]

\* (mutant) ranges = preset["ranges"]: the blocks assign into the catalog's dict
PresetsAfterAliased(catalog, tank_type, store) ==
    [catalog EXCEPT ![tank_type].ranges = ComputeRanges(catalog[tank_type], store)]

\* TANK_PRESETS after a request: ranges = dict(preset["ranges"]) is a copy
\* and each block assigns a new dict to a key of the copy
PresetsAfter(catalog, tank_type, store) == catalog

\* /api/ranges?type=tank_type, up to its response, the store answering with
\* one of `stores`
RangesRequest(tank_type, stores) ==
    /\ rTank' = tank_type
    /\ IF tank_type \notin DOMAIN TANK_PRESETS
       THEN /\ rStore' = NoStore
            /\ rOut' = [status |-> 404, tank_type |-> tank_type, name |-> "",
                        ranges |-> NoStore]
            /\ TANK_PRESETS' = TANK_PRESETS
       ELSE \E store \in stores :
            /\ rStore' = store
            /\ rOut' = [status |-> 200, tank_type |-> tank_type,
                        name |-> TANK_PRESETS[tank_type].name,
                        ranges |-> ComputeRanges(TANK_PRESETS[tank_type], store)]
            /\ TANK_PRESETS' = PresetsAfter(TANK_PRESETS, tank_type, store)
    /\ rPhase' = "responded"

\* a request of /api/ranges?type=tank_type, up to its response
ApiRanges ==
    /\ rPhase = "ready"
    /\ \E tank_type \in TankTypesAsked : RangesRequest(tank_type, RangeStores)
    /\ UNCHANGED <<rFirst, rCount, collectorVars, readerVars, queryVars>>
    /\ UNCHANGED serviceVars

\* the response is sent; the request's locals are gone
RangesSent ==
    /\ rPhase = "responded"
    /\ rPhase' = "ready"
    /\ rTank' = "" /\ rStore' = NoStore /\ rOut' = NoRanges
    /\ UNCHANGED <<TANK_PRESETS, rFirst, rCount, collectorVars, readerVars, queryVars>>
    /\ UNCHANGED serviceVars

\* the stores of the repeated requests: the pH and ORP metrics answer with a
\* one-sample series, with an empty result or not at all, the others are empty
RepeatStores ==
    {[c \in DynCols |-> ReplyOfKind(IF c \in {"ph", "orp"} THEN k[c] ELSE "empty", x)] :
        k \in [{"ph", "orp"} -> StoreKinds], x \in {y \in GoodSeries : Len(y) = 1}}

\* the client asks /api/ranges once more
AskRanges ==
    /\ rPhase = "ready"
    /\ rCount < MaxRequests
    /\ \E tank_type \in TankTypesAsked : RangesRequest(tank_type, RepeatStores)
    /\ rCount' = rCount + 1
    /\ UNCHANGED <<rFirst, collectorVars, readerVars, queryVars>>
    /\ UNCHANGED serviceVars

\* the client keeps the response it has just got, with what it asked for
KeepResponse ==
    /\ rPhase = "responded"
    /\ ~rFirst.kept
    /\ rFirst' = [kept |-> TRUE, tank |-> rTank, store |-> rStore, out |-> rOut]
    /\ UNCHANGED <<TANK_PRESETS, rPhase, rTank, rStore, rOut, rCount>>
    /\ UNCHANGED <<collectorVars, readerVars, queryVars>>
    /\ UNCHANGED serviceVars

----------------------------------------------------------------------------
(* app.py: api_history and the bulk export *)

\* the columns in the order VM_METRICS.items() yields them
MetricOrder == <<"temperature", "ph", "tds", "ec", "salinity", "sg", "orp">>

\* what the store holds of one metric: samples at some points of the grid
\* (ok), or it fails to answer for it
Full == [ok |-> TRUE, at |-> 1..MaxGrid]
Holdings == {[ok |-> TRUE, at |-> S] : S \in SUBSET (1..MaxGrid)} \cup {[ok |-> FALSE, at |-> {}]}

\* the stores: all metrics hold the full grid but at most MaxOdd of them
MetricStores ==
    UNION {{[c \in Cols |-> IF c \in S THEN f[c] ELSE Full] : f \in [S -> Holdings]} :
              S \in {X \in SUBSET Cols : Cardinality(X) <= MaxOdd}}

RECURSIVE SortedSeq(_)
\* the points of a set in ascending order, as the store returns samples
SortedSeq(S) ==
    IF S = {} THEN <<>>
    ELSE LET m == CHOOSE x \in S : \A y \in S : x <= y
         IN <<m>> \o SortedSeq(S \ {m})

\* the value the store holds at grid point ts, as the text it sends
TextAt(ts) == [numeric |-> TRUE, hundredths |-> 100 * ts]

\* the "values" of the result series for the samples at the points `at`
HeldSeries(at) ==
    [i \in 1..Cardinality(at) |-> [ts |-> SortedSeq(at)[i], text |-> TextAt(SortedSeq(at)[i])]]

\* the store's reply to a query_range request for a metric it holds `h` of
ReplyOfHolding(h) ==
    IF ~h.ok THEN ReplyOfKind("fail", <<>>)
    ELSE IF h.at = {} THEN ReplyOfKind("empty", <<>>)
    ELSE ReplyOfKind("data", HeldSeries(h.at))

NoHistory == [status |-> 0, timestamps |-> <<>>, values |-> NoStore]

\* the body of api_history: the loop over VM_METRICS.items()
HistoryOf(hours, store) ==
    LET data(c) == QueryVictoria(VM_METRICS[c], hours, ReplyOfHolding(store[c])).out
        withTs == SelectSeq(MetricOrder, LAMBDA c : data(c).timestamps # <<>>)
    IN [status |-> 200,
        timestamps |-> IF withTs = <<>> THEN <<>> ELSE data(withTs[1]).timestamps,
        values |-> [c \in Cols |-> data(c).values]]

\* a request of /api/history?hours=..., up to its response
ApiHistory ==
    /\ hPhase = "ready"
    /\ \E hours \in HoursAsked, store \in MetricStores :
          /\ hStore' = store
          /\ hOut' = HistoryOf(hours, store)
    /\ hPhase' = "responded"
    /\ UNCHANGED <<coreVars, exportVars, wizardVars, diaryVars>>

\* the response is sent; the request's locals are gone
HistorySent ==
    /\ hPhase = "responded"
    /\ hPhase' = "ready"
    /\ hStore' = NoStore /\ hOut' = NoHistory
    /\ UNCHANGED <<coreVars, exportVars, wizardVars, diaryVars>>

\* datetime.fromtimestamp(ts)
FromTimestamp(ts) == [datetime |-> TRUE, epoch |-> ts]

\* pd.DataFrame(): no columns, no rows
EmptyFrame == [empty |-> TRUE, timestamp |-> <<>>, columns |-> NoStore]

\* pd.DataFrame(all_data) then df.insert(0, "timestamp", timestamps): both
\* raise ValueError when the lists are not all of the same length
DataFrame(all_data, timestamps) ==
    IF \E c \in DOMAIN all_data : Len(all_data[c]) # Len(timestamps)
    THEN [exc |-> TRUE, df |-> EmptyFrame]
    ELSE [exc |-> FALSE,
          df |-> [empty |-> FALSE, timestamp |-> timestamps, columns |-> all_data]]

\* the test of the loop of get_all_readings_from_vm on one reply
HasResult(reply) ==
    reply.hasStatus /\ reply.status = "success" /\ reply.hasData /\ reply.result # <<>>

\* get_all_readings_from_vm against a store that answers the first query or
\* not (up) and holds `held`; every exception ends in the empty frame
GetAllReadingsFromVm(up, held) ==
    LET reply(c) == ReplyOfHolding(held[c])
        values(c) == reply(c).result[1]
        got == SelectSeq(MetricOrder, LAMBDA c : HasResult(reply(c)))
        gotCols == {got[i] : i \in 1..Len(got)}
        timestamps ==
            IF got = <<>> THEN <<>>
            ELSE [i \in 1..Len(values(got[1])) |-> FromTimestamp(values(got[1])[i].ts)]
        all_data ==
            [c \in gotCols |-> [i \in 1..Len(values(c)) |-> ToFloat(values(c)[i].text)]]
    IN IF ~up \/ \E c \in Cols : ~reply(c).net \/ ~reply(c).json
       THEN EmptyFrame
       ELSE IF \E c \in gotCols : \E i \in 1..Len(values(c)) : ~values(c)[i].text.numeric
       THEN EmptyFrame
       ELSE IF timestamps = <<>> THEN EmptyFrame
       ELSE DataFrame(all_data, timestamps).df

NoExportStore == [up |-> FALSE, held |-> NoStore]
NoExport == [status |-> 0, rows |-> 0]

\* a request of /export/excel, up to its response: 404 for an empty frame,
\* else the sheet with one row per timestamp
ExportExcel ==
    /\ xPhase = "ready"
    /\ \E up \in BOOLEAN, held \in MetricStores :
          LET df == GetAllReadingsFromVm(up, held) IN
          /\ xStore' = [up |-> up, held |-> held]
          /\ xTable' = df
          /\ xOut' = IF df.empty THEN [status |-> 404, rows |-> 0]
                     ELSE [status |-> 200, rows |-> Len(df.timestamp)]
    /\ xPhase' = "responded"
    /\ UNCHANGED <<coreVars, historyVars, wizardVars, diaryVars>>

\* the response is sent; the request's locals are gone
ExportSent ==
    /\ xPhase = "responded"
    /\ xPhase' = "ready"
    /\ xStore' = NoExportStore /\ xTable' = EmptyFrame /\ xOut' = NoExport
    /\ UNCHANGED <<coreVars, historyVars, wizardVars, diaryVars>>

----------------------------------------------------------------------------
(* setup-tuya.py: test_connection *)

\* the protocol versions: the one tried first, and the list of the for loop
FirstVersion == "3.5"
LaterVersions == <<"3.4", "3.3", "3.1">>
Versions == {FirstVersion} \cup {LaterVersions[i] : i \in 1..Len(LaterVersions)}

\* what status() does under one version: it raises, or returns a dict with
\* or without "Error" and with or without "dps"
WizardAnswers ==
    {a \in DeviceAnswers :
        /\ (a.raises \/ a.hasError) <=> a.error # ""
        /\ a.hasDps <=> a.dps = [c \in {"8"} |-> Raw(0)]
        /\ ~a.hasDps <=> a.dps = NoDps}

\* the {} of `return None, {}`
EmptyResult == [raises |-> FALSE, hasError |-> FALSE, error |-> "", hasDps |-> FALSE, dps |-> NoDps]

RECURSIVE TryLater(_, _, _)
\* the for loop over [3.4, 3.3, 3.1] from its i-th version on, and the
\* `return None, result` after it; an exception goes to the except clause
TryLater(dev, i, calls) ==
    IF i > Len(LaterVersions)
    THEN [ver |-> "None", result |-> dev[LaterVersions[Len(LaterVersions)]], calls |-> calls]
    ELSE LET ver == LaterVersions[i]
             r == dev[ver]
         IN IF r.raises
            THEN [ver |-> "None", result |-> EmptyResult, calls |-> Append(calls, ver)]
            ELSE IF r.hasDps
            THEN [ver |-> ver, result |-> r, calls |-> Append(calls, ver)]
            ELSE TryLater(dev, i + 1, Append(calls, ver))

\* test_connection against a device that answers dev[v] under version v
TestConnectionOf(dev) ==
    LET r == dev[FirstVersion] IN
    IF r.raises
    THEN [ver |-> "None", result |-> EmptyResult, calls |-> <<FirstVersion>>]
    ELSE IF r.hasError
    THEN TryLater(dev, 1, <<FirstVersion>>)
    ELSE [ver |-> FirstVersion, result |-> r, calls |-> <<FirstVersion>>]

NoWizardOut == [ver |-> "None", result |-> EmptyResult]

\* a call of test_connection, up to its return
TestConnection ==
    /\ wPhase = "ready"
    /\ \E dev \in [Versions -> WizardAnswers] :
          LET t == TestConnectionOf(dev) IN
          /\ wDevice' = dev
          /\ wCalls' = t.calls
          /\ wOut' = [ver |-> t.ver, result |-> t.result]
    /\ wPhase' = "returned"
    /\ UNCHANGED <<coreVars, historyVars, exportVars, diaryVars>>

\* the wizard has used the result; the call's locals are gone
WizardDone ==
    /\ wPhase = "returned"
    /\ wPhase' = "ready"
    /\ wDevice' = NoStore /\ wCalls' = <<>> /\ wOut' = NoWizardOut
    /\ UNCHANGED <<coreVars, historyVars, exportVars, diaryVars>>

----------------------------------------------------------------------------
(* app.py: the diary *)

\* the threads of the server that handle requests at the same time
Threads == {"t1", "t2"}

\* the timestamps a client gives its entries (ISO strings, compared as such)
Stamps == 1..MaxClock

NoLocal == [id |-> 0, timestamp |-> 0, entries |-> <<>>]

\* load_diary: the list in the file, [] when there is none
LoadDiary(file) == file

\* save_diary: the file holds the list
SaveDiary(entries) == entries

\* where a stable descending sort puts e into a list sorted that way
InsertDesc(e, sorted) ==
    LET k == Cardinality({i \in 1..Len(sorted) : sorted[i].timestamp >= e.timestamp})
    IN SubSeq(sorted, 1, k) \o <<e>> \o SubSeq(sorted, k + 1, Len(sorted))

RECURSIVE SortDesc(_)
\* entries.sort(key=lambda x: x["timestamp"], reverse=True)
SortDesc(entries) ==
    IF entries = <<>> THEN <<>>
    ELSE InsertDesc(entries[Len(entries)], SortDesc(SubSeq(entries, 1, Len(entries) - 1)))

\* [e for e in entries if e["id"] != entry_id]
WithoutId(entries, entry_id) == SelectSeq(entries, LAMBDA e : e.id # entry_id)

\* a millisecond passes
Tick ==
    /\ clock < MaxClock
    /\ clock' = clock + 1
    /\ UNCHANGED <<diary, adds, tPc, tLocal, acked, delRun>>
    /\ UNCHANGED <<coreVars, historyVars, exportVars, wizardVars>>

\* api_diary_add with a JSON body, up to the return of load_diary: the entry
\* gets the clock as its id
AddLoad(t) ==
    /\ tPc[t] = "idle"
    /\ adds < MaxAdds
    /\ \E timestamp \in Stamps :
          tLocal' = [tLocal EXCEPT ![t] =
                        [id |-> clock, timestamp |-> timestamp, entries |-> LoadDiary(diary)]]
    /\ tPc' = [tPc EXCEPT ![t] = "adding"]
    /\ adds' = adds + 1
    /\ UNCHANGED <<diary, clock, acked, delRun>>
    /\ UNCHANGED <<coreVars, historyVars, exportVars, wizardVars>>

\* the rest of api_diary_add: append, sort, save_diary, answer success
AddSave(t) ==
    /\ tPc[t] = "adding"
    /\ LET entry == [id |-> tLocal[t].id, timestamp |-> tLocal[t].timestamp] IN
          /\ diary' = SaveDiary(SortDesc(Append(tLocal[t].entries, entry)))
          /\ acked' = acked \cup {entry}
    /\ tPc' = [tPc EXCEPT ![t] = "idle"]
    /\ tLocal' = [tLocal EXCEPT ![t] = NoLocal]
    /\ UNCHANGED <<clock, adds, delRun>>
    /\ UNCHANGED <<coreVars, historyVars, exportVars, wizardVars>>

\* api_diary_delete(entry_id), up to the return of load_diary
DelLoad(t) ==
    /\ tPc[t] = "idle"
    /\ \E entry_id \in 1..MaxClock :
          /\ tLocal' = [tLocal EXCEPT ![t] =
                           [id |-> entry_id, timestamp |-> 0, entries |-> LoadDiary(diary)]]
          /\ delRun' = delRun \cup {entry_id}
    /\ tPc' = [tPc EXCEPT ![t] = "deleting"]
    /\ UNCHANGED <<diary, clock, adds, acked>>
    /\ UNCHANGED <<coreVars, historyVars, exportVars, wizardVars>>

\* the rest of api_diary_delete: filter, save_diary, answer success
DelSave(t) ==
    /\ tPc[t] = "deleting"
    /\ diary' = SaveDiary(WithoutId(tLocal[t].entries, tLocal[t].id))
    /\ tPc' = [tPc EXCEPT ![t] = "idle"]
    /\ tLocal' = [tLocal EXCEPT ![t] = NoLocal]
    /\ UNCHANGED <<clock, adds, acked, delRun>>
    /\ UNCHANGED <<coreVars, historyVars, exportVars, wizardVars>>

----------------------------------------------------------------------------
(* Specifications of the collector and of the scaling of one device answer *)

InitReaderOff == device = NoAnswer /\ current = NoCurrent
InitQueryOff ==
    /\ qPhase = "ready" /\ qMetric = "" /\ qHours = 0 /\ qReply = NoReply /\ qStep = ""
    /\ qOut = NoQueryOut
InitRangesOff ==
    /\ TANK_PRESETS = [x \in {} |-> 0]
    /\ rPhase = "ready" /\ rTank = "" /\ rStore = NoStore /\ rOut = NoRanges
    /\ rFirst = NoFirst /\ rCount = 0

InitHistoryOff == hPhase = "ready" /\ hStore = NoStore /\ hOut = NoHistory
InitExportOff ==
    xPhase = "ready" /\ xStore = NoExportStore /\ xTable = EmptyFrame /\ xOut = NoExport
InitWizardOff ==
    wPhase = "ready" /\ wDevice = NoStore /\ wCalls = <<>> /\ wOut = NoWizardOut
\* no diary file yet, no request in progress
InitDiary ==
    /\ diary = <<>> /\ clock = 1 /\ adds = 0
    /\ tPc = [t \in Threads |-> "idle"]
    /\ tLocal = [t \in Threads |-> NoLocal]
    /\ acked = {} /\ delRun = {}
InitServiceOff == InitHistoryOff /\ InitExportOff /\ InitWizardOff /\ InitDiary

\* the state after start-up: no cycle, request or call made yet, no preset file
InitAll ==
    InitCollector /\ InitReaderOff /\ InitQueryOff /\ InitRangesOff /\ InitServiceOff

NextCollector == Poll \/ Sleep

\* the collector process, the device and the store answering anything
SpecCollector ==
    InitAll
    /\ [][NextCollector]_vars

\* the collector loop over the answers of at most one data-point, an integer
\* or a text, which show every outcome of a cycle
PollOutcomes == {a \in DeviceAnswers : Cardinality(DOMAIN a.dps) <= 1} \cup TextAnswers

PollOne ==
    /\ pc = "Polling"
    /\ \E res \in PollOutcomes, lat \in Latencies, wr \in WriteReplies :
          CollectOnce(res, wr, lat)
    /\ UNCHANGED <<readerVars, queryVars, rangesVars>>
    /\ UNCHANGED serviceVars

NextLoop == PollOne \/ Sleep

\* collect_once and time.sleep return (every call in them has a timeout), so
\* the loop's steps are weakly fair
FairCollector ==
    InitAll
    /\ [][NextLoop]_vars /\ WF_vars(PollOne) /\ WF_vars(Sleep)

\* the collector polling the device whose answer is `device` (the time the
\* cycle takes plays no part in what it encodes)
PollDevice ==
    /\ \E wr \in WriteReplies : CollectOnce(device, wr, 0)
    /\ UNCHANGED <<readerVars, queryVars, rangesVars>>
    /\ UNCHANGED serviceVars

\* the dashboard asked for the current reading of that device
CurrentOfDevice == ApiCurrent(device)

InitScale ==
    /\ InitCollector
    /\ device \in DeviceAnswers \cup {a \in TextAnswers : DOMAIN a.dps \subseteq UnknownIds}
    /\ current = NoCurrent
    /\ InitQueryOff /\ InitRangesOff /\ InitServiceOff

NextScale == PollDevice \/ Sleep \/ CurrentOfDevice

\* one device answer, scaled and encoded by the collector and by the dashboard
SpecScale == InitScale /\ [][NextScale]_vars

NextQuery == CallQuery \/ QueryDone

\* query_victoria called with any metric, look-back and store reply
SpecQuery ==
    InitAll
    /\ [][NextQuery]_vars

InitRanges ==
    /\ InitCollector /\ InitReaderOff /\ InitQueryOff
    /\ TANK_PRESETS \in PresetCatalogs
    /\ rPhase = "ready" /\ rTank = "" /\ rStore = NoStore /\ rOut = NoRanges
    /\ rFirst = NoFirst /\ rCount = 0
    /\ InitServiceOff

NextRanges == ApiRanges \/ RangesSent

\* /api/ranges asked for any tank type, over any loaded catalog and store
SpecRanges ==
    InitRanges /\ [][NextRanges]_vars

NextRepeat == AskRanges \/ KeepResponse \/ RangesSent

\* a client that asks /api/ranges several times and compares what it gets
SpecRepeat ==
    InitRanges /\ [][NextRepeat]_vars

NextHistory == ApiHistory \/ HistorySent

\* /api/history asked for any look-back, over any store
SpecHistory ==
    InitAll /\ [][NextHistory]_vars

NextExport == ExportExcel \/ ExportSent

\* /export/excel asked over any store
SpecExport ==
    InitAll /\ [][NextExport]_vars

NextWizard == TestConnection \/ WizardDone

\* test_connection called against any device
SpecWizard ==
    InitAll /\ [][NextWizard]_vars

NextDiary ==
    \/ Tick
    \/ \E t \in Threads : AddLoad(t) \/ AddSave(t) \/ DelLoad(t) \/ DelSave(t)

\* diary add and delete requests handled by the server's threads, their
\* load_diary and save_diary calls interleaved in any order
SpecDiary ==
    InitAll /\ [][NextDiary]_vars

----------------------------------------------------------------------------
(* Claims about the collector *)

ReadOk(res) == ~res.raises /\ ~res.hasError
Matched(res) == IF res.hasDps THEN CatalogIds \cap DOMAIN res.dps ELSE {}

\* C4 as stated: the time between two cycle starts is the interval when the
\* earlier cycle took no longer than the interval, and the cycle's duration
\* (no sleep) when it took longer.
C4_GapMeasuredFromStart ==
    (pc = "Polling" /\ gap > 0) =>
        gap = (IF dur <= INTERVAL THEN INTERVAL ELSE dur)

\* C4 amended: the loop always sleeps the full interval after a cycle ends, so
\* the time between two cycle starts is the earlier cycle's duration plus the
\* interval (300 s), also when the cycle overran the interval.
C4_GapIsDurationPlusInterval ==
    (pc = "Polling" /\ gap > 0) => gap = dur + INTERVAL

\* a cycle that took time has been followed by the start of the next one
C4_Witness == pc = "Polling" /\ gap > 0 /\ dur > 0 /\ dur <= INTERVAL

OwnLinesOnly(res, lines) ==
    /\ ~ReadOk(res) => lines = <<>>
    /\ Len(lines) <= Cardinality(Matched(res))
    /\ \A i \in 1..Len(lines) :
          \E id \in Matched(res) :
             /\ lines[i].metric = DPS_MAP[id].metric
             /\ lines[i].numeric = res.dps[id].num
             /\ lines[i].numeric =>
                   lines[i].value.n * DPS_MAP[id].scale.d
                     = res.dps[id].v * DPS_MAP[id].scale.n * lines[i].value.d

\* C6: the loop is always polling or idle, every cycle is followed by the
\* sleep and every sleep by another cycle, whatever the cycle's outcome (an
\* exception that escapes collect_once included), and what a cycle posts is
\* made of its own device answer only, at most once.
C6_LoopNeverEnds ==
    /\ [](pc \in {"Idle", "Polling"})
    /\ [](pc = "Idle" => (posts <= 1 /\ OwnLinesOnly(result, payload)))
    /\ ((pc = "Idle") ~> (pc = "Polling"))
    /\ ((pc = "Polling") ~> (pc = "Idle"))

\* the cycle after one that ended in an exception, its POST made, is about to start
C6_Witness == pc = "Polling" /\ gap > 0 /\ raised /\ posts = 1

----------------------------------------------------------------------------
(* Claims about query_victoria *)

\* C2: the step sent to the store depends on the look-back alone: 1m up to
\* 6 hours, 5m up to 24, 15m up to 168, 1h beyond.
C2_StepFromHoursAlone ==
    qPhase = "returned" =>
        /\ (qHours <= 6) => qStep = "1m"
        /\ (6 < qHours /\ qHours <= 24) => qStep = "5m"
        /\ (24 < qHours /\ qHours <= 168) => qStep = "15m"
        /\ (qHours > 168) => qStep = "1h"

\* a look-back of exactly 168 hours, asked of a store that answered with data
C2_Witness == qHours = 168 /\ qStep = "15m" /\ qOut.out.values # <<>>

\* C3: query_victoria never raises; it returns the empty series on a network
\* failure, malformed JSON, a missing status or data field, a non-success
\* status, an empty result list and a non-numeric value, and a non-empty
\* series only on status success with at least one result series.
C3_NeverRaisesEmptyOnFailure ==
    qPhase = "returned" =>
        /\ ~qOut.raised
        /\ Len(qOut.out.timestamps) = Len(qOut.out.values)
        /\ (\/ ~qReply.net \/ ~qReply.json \/ ~qReply.hasStatus \/ ~qReply.hasData
            \/ qReply.status # "success" \/ qReply.result = <<>>
            \/ \E i \in 1..Len(qReply.result[1]) : ~qReply.result[1][i].text.numeric)
              => qOut.out = EmptySeries
        /\ qOut.out # EmptySeries =>
              (qReply.hasStatus /\ qReply.status = "success" /\ qReply.result # <<>>)

\* a success reply whose first series holds a non-numeric value gave no data
C3_Witness ==
    /\ qPhase = "returned" /\ qReply.net /\ qReply.json /\ qReply.hasStatus /\ qReply.hasData
    /\ qReply.status = "success" /\ qReply.result # <<>>
    /\ Len(qReply.result[1]) = 2
    /\ ~qReply.result[1][2].text.numeric
    /\ qOut.out = EmptySeries /\ ~qOut.raised

----------------------------------------------------------------------------
(* Claims about api_ranges *)

Answered == rPhase = "responded" /\ rOut.status = 200
IsDynamic(band) == "dynamic" \in DOMAIN band /\ band.dynamic

\* the store's reply carries at least one sample that query_victoria returns
HasSamples(reply) ==
    /\ reply.net /\ reply.json /\ reply.hasStatus /\ reply.status = "success"
    /\ reply.hasData /\ reply.result # <<>>
    /\ reply.result[1] # <<>>
    /\ \A i \in 1..Len(reply.result[1]) : reply.result[1][i].text.numeric

\* the arithmetic mean of the samples of a reply, in hundredths times the count
SampleSum(reply) ==
    LET v == reply.result[1]
        F[i \in 0..Len(v)] == IF i = 0 THEN 0 ELSE F[i - 1] + v[i].text.hundredths
    IN F[Len(v)]
SampleMean(reply) == Rat(SampleSum(reply), 100 * Len(reply.result[1]))

\* C1: every dynamic band of a ranges response is ordered
\* min <= ideal_min <= mean <= ideal_max <= max.
C1_DynamicBandOrdered ==
    Answered =>
        \A c \in DOMAIN rOut.ranges :
            LET b == rOut.ranges[c] IN
            IsDynamic(b) =>
                /\ RatLeq(b.min, b.ideal_min)
                /\ RatLeq(b.ideal_min, b.mean)
                /\ RatLeq(b.mean, b.ideal_max)
                /\ RatLeq(b.ideal_max, b.max)

\* C7: a band of a ranges response differs from the preset's band only for
\* one of the five dynamic parameters whose 7-day query returned a sample;
\* every other band of the preset is in the response unmodified and not
\* dynamic, whatever the other parameters' queries returned.
C7_StaticBandKept ==
    Answered =>
        LET preset == TANK_PRESETS[rTank].ranges IN
        /\ \A c \in DOMAIN rOut.ranges :
              (c \notin DOMAIN preset \/ rOut.ranges[c] # preset[c])
                 => (c \in DynCols /\ HasSamples(rStore[c]))
        /\ \A c \in DOMAIN preset :
              (c \notin DynCols \/ ~HasSamples(rStore[c]))
                 => /\ c \in DOMAIN rOut.ranges
                    /\ rOut.ranges[c] = preset[c]
                    /\ ~IsDynamic(rOut.ranges[c])

\* pH had samples and EC had none: pH is dynamic, EC and temperature are the preset's
C7_Witness ==
    /\ Answered
    /\ HasSamples(rStore["ph"]) /\ ~HasSamples(rStore["ec"])
    /\ IsDynamic(rOut.ranges["ph"])
    /\ rOut.ranges["ec"] = TANK_PRESETS[rTank].ranges["ec"]
    /\ rOut.ranges["temperature"] = TANK_PRESETS[rTank].ranges["temperature"]

Clamp(x, lo, hi) == RatMax(lo, RatMin(hi, x))

\* C8: with at least one pH sample the pH band is min 6.5, max 8.5,
\* ideal_min = mean - 0.5 and ideal_max = mean + 0.5 each clamped into
\* [6.5, 8.5], dynamic, and its mean is the arithmetic mean of the samples.
C8_PhBandClamped ==
    (Answered /\ HasSamples(rStore["ph"])) =>
        LET b == rOut.ranges["ph"]
            m == SampleMean(rStore["ph"])
        IN /\ IsDynamic(b)
           /\ RatEq(b.min, Rat(65, 10)) /\ RatEq(b.max, Rat(85, 10))
           /\ RatEq(b.ideal_min, Clamp(RatSub(m, Rat(1, 2)), Rat(65, 10), Rat(85, 10)))
           /\ RatEq(b.ideal_max, Clamp(RatAdd(m, Rat(1, 2)), Rat(65, 10), Rat(85, 10)))
           /\ RatEq(b.mean, m)

\* C9: with at least one sample, EC, TDS and salinity have ideal bounds at 80%
\* and 120% of the mean and absolute bounds at 50% and 150% of it, ORP has
\* ideal bounds at 85% and 115% and absolute bounds at 70% and 130%, and no
\* absolute bound is below 0, for every mean.
C9_PercentBands ==
    Answered =>
        \A c \in DynCols \ {"ph"} :
            HasSamples(rStore[c]) =>
                LET b == rOut.ranges[c]
                    m == SampleMean(rStore[c])
                    zero == RatInt(0)
                    pct(k) == RatMul(m, Rat(k, 100))
                IN /\ IsDynamic(b)
                   /\ RatEq(b.ideal_min, pct(IF c = "orp" THEN 85 ELSE 80))
                   /\ RatEq(b.ideal_max, pct(IF c = "orp" THEN 115 ELSE 120))
                   /\ RatEq(b.min, RatMax(zero, pct(IF c = "orp" THEN 70 ELSE 50)))
                   /\ RatEq(b.max, RatMax(zero, pct(IF c = "orp" THEN 130 ELSE 150)))
                   /\ RatLeq(zero, b.min) /\ RatLeq(zero, b.max)

----------------------------------------------------------------------------
(* Claims about the device reader's failure handling *)

\* C11: whenever status() raises or its answer holds an "Error" key (with any
\* string, the empty one included), /api/current answers an error response
\* (status 500) that carries the cause, never a success status or a reading,
\* and the collector's get_sensor_reading returns no data-points for the poll.
C11_ErrorIsHardFailure ==
    (device.raises \/ device.hasError) =>
        /\ current.status # 0 =>
              /\ current.status = 500
              /\ current.hasError /\ current.error = device.error
              /\ current.null /\ current.reading = NoDps
        /\ pc = "Idle" => (sensor.none /\ sensor.dps = NoDps)

----------------------------------------------------------------------------
(* Claims about repeated range requests *)

\* the request just answered asked what the kept one asked
SameAsKept == rFirst.kept /\ rFirst.tank = rTank /\ rFirst.store = rStore

\* C12: two /api/ranges requests for the same tank type with the same store
\* contents are answered with the same bands for every parameter, whatever
\* requests ran before or between them, and no request changes TANK_PRESETS.
C12_SameRequestSameBands ==
    [][/\ TANK_PRESETS' = TANK_PRESETS
       /\ (rPhase' = "responded" /\ SameAsKept') => rOut' = rFirst'.out]_vars

\* a repeated request with computed bands, two requests after the kept one
C12_Witness ==
    /\ rPhase = "responded" /\ SameAsKept
    /\ rCount = MaxRequests
    /\ rOut.status = 200
    /\ \E c \in DOMAIN rOut.ranges : IsDynamic(rOut.ranges[c])
    /\ \E c \in DOMAIN rOut.ranges : ~IsDynamic(rOut.ranges[c])

----------------------------------------------------------------------------
(* Claims about the bulk export and the history request *)

\* the metrics the store holds samples of, the first of them in VM_METRICS'
\* order, and the length of the shortest of their series
Held(held) == {c \in Cols : held[c].ok /\ held[c].at # {}}
FirstHeld(held) == SelectSeq(MetricOrder, LAMBDA c : c \in Held(held))[1]
Shortest(held) ==
    CHOOSE n \in {Cardinality(held[c].at) : c \in Held(held)} :
        \A c \in Held(held) : n <= Cardinality(held[c].at)

\* C13: get_all_readings_from_vm returns a table whose timestamp column is
\* the first metric's timestamps and whose columns are the per-metric series,
\* all truncated to the shortest common length when the series differ in
\* length; unequal lengths never make the export fail or come back empty.
C13_ExportTruncatesToShortest ==
    (/\ xPhase = "responded" /\ xStore.up
     /\ \A c \in Cols : xStore.held[c].ok
     /\ Held(xStore.held) # {}) =>
        LET held == xStore.held
            n == Shortest(held)
        IN /\ ~xTable.empty /\ xOut.status = 200 /\ xOut.rows = n
           /\ xTable.timestamp =
                 [i \in 1..n |-> FromTimestamp(SortedSeq(held[FirstHeld(held)].at)[i])]
           /\ DOMAIN xTable.columns = Held(held)
           /\ \A c \in Held(held) :
                 xTable.columns[c] = [i \in 1..n |-> ToFloat(TextAt(SortedSeq(held[c].at)[i]))]

\* C14: in the response of /api/history every metric's values list is empty
\* or as long as the timestamps list, its i-th value being the sample the
\* store holds of that metric at the i-th timestamp, for every combination
\* of per-metric store results.
C14_SeriesAlignedToTimestamps ==
    hPhase = "responded" =>
        \A c \in Cols :
            LET v == hOut.values[c] IN
            \/ v = <<>>
            \/ /\ Len(v) = Len(hOut.timestamps)
               /\ \A i \in 1..Len(v) :
                     /\ hOut.timestamps[i].epoch \in hStore[c].at
                     /\ v[i] = ToFloat(TextAt(hOut.timestamps[i].epoch))

----------------------------------------------------------------------------
(* Claims about the set-up wizard *)

\* the versions in the order the claim gives, and the ones before the i-th
VersionOrder == <<FirstVersion>> \o LaterVersions
Succeeded(a) == ~a.raises /\ a.hasDps

\* C15: test_connection tries the versions in the order 3.5, 3.4, 3.3, 3.1
\* and stops at the first success: it returns a version v only if the call
\* made with v succeeded (its result holds data-points) and the calls for all
\* earlier versions failed, and it returns None only after all four versions
\* have failed or a call raised.
C15_FirstSuccessInOrder ==
    wPhase = "returned" =>
        /\ wCalls = SubSeq(VersionOrder, 1, Len(wCalls))
        /\ wOut.ver # "None" =>
              \E i \in 1..Len(VersionOrder) :
                  /\ VersionOrder[i] = wOut.ver
                  /\ Len(wCalls) = i
                  /\ wOut.result = wDevice[wOut.ver]
                  /\ Succeeded(wDevice[wOut.ver])
                  /\ \A j \in 1..(i - 1) : ~Succeeded(wDevice[VersionOrder[j]])
        /\ wOut.ver = "None" =>
              \/ \E i \in 1..Len(wCalls) : wDevice[wCalls[i]].raises
              \/ /\ wCalls = VersionOrder
                 /\ \A v \in Versions : ~Succeeded(wDevice[v])

----------------------------------------------------------------------------
(* Claims about the diary *)

\* the entries of a list, as a set
EntriesOf(entries) == {entries[i] : i \in 1..Len(entries)}

\* C16: under any interleaving of diary add and delete requests, every entry
\* whose add returned success is in the persisted diary until a delete request
\* for its id has run, and a delete request removes only entries with the
\* given id.
C16_NoEntryLost ==
    [][/\ \A e \in acked' : e.id \notin delRun' => e \in EntriesOf(diary')
       /\ \A t \in Threads :
             (tPc[t] = "deleting" /\ tPc'[t] = "idle") =>
                 \A e \in EntriesOf(diary) \ EntriesOf(diary') : e.id = tLocal[t].id]_vars

====
